---- MODULE Spec2Model ----
(***************************************************************************)
(* Model of src/bot.py (JIBRAIL signal bot).                               *)
(*                                                                         *)
(* Units.  Prices are integers in pips (1 pip = 0.0001), so 1.1000 is      *)
(* 11000 and the 0.0008 floor of line 127 is 8.  Money is in cents, so the *)
(* default START_CAPITAL 1000 is 100000; the drift of the float capital    *)
(* off the cent grid is not kept, and where round(x, 2) meets half a cent  *)
(* both neighbouring cents are possible.  The exponentially weighted sums  *)
(* of pandas' ewm are kept in fixed point.                                 *)
(*                                                                         *)
(* The file as written does not compile (the string literals of lines      *)
(* 285-293 are not terminated).  The model takes the functions of lines    *)
(* 1-283 and drives them the way setup_schedules and lines 281-283 and     *)
(* 296-298 read: jobs one after the other on the timer thread, /status on  *)
(* the listener thread.  Main is the run of the file as it is.             *)
(***************************************************************************)
EXTENDS Integers, Sequences, FiniteSets

VARIABLES DEMO_RESULT, TWELVEDATA_KEY, RR,   \* configuration (lines 22-30)
          feed,                              \* what stands behind the two providers
          capital,                           \* the global of line 113
          pc, idx, pair,                     \* timer thread: position, loop variables
          wd, dom,                           \* weekday / day of month the job saw
          risk, reward,                      \* locals of signal_scan
          td, yh,                            \* what the two providers answered last
          df, res,                           \* last get_candle / analyze_pair result
          txt,                               \* local of send_result
          sent, lines,                       \* send() calls of the job, heartbeat lines
          lastOp,                            \* the step taken last
          reported, replied,                 \* balance of the last /status reply; the
                                             \* last step was that reply
          nOutcomes                          \* outcome applications since the reset

vars == <<DEMO_RESULT, TWELVEDATA_KEY, RR, feed, capital, pc, idx, pair, wd, dom,
          risk, reward, td, yh, df, res, txt, sent, lines, lastOp, reported,
          replied, nOutcomes>>

(***************************************************************************)
(* Program constants                                                       *)
(***************************************************************************)
PAIR_LIST == <<"EUR/USD", "GBP/USD">>
START_CAPITAL == 100000
RISK_PERCENT == 2
MinCandles == 60
MinRange == 8
Span20 == 20
Span50 == 50
OffDays == {4, 5, 6}
\* outputsize=30 of the TwelveData request; period="2d" of hourly candles of
\* the Yahoo request
TwelveDataOutputSize == 30
YahooDays == 2
YahooWindow == YahooDays * 24

(***************************************************************************)
(* Bounds of the model                                                     *)
(***************************************************************************)
MaxExtra == 1
MaxRR == 2
MaxOutcomes == 1
BasePrice == 11000
EwmScale == 100

(***************************************************************************)
(* Values                                                                  *)
(***************************************************************************)
None == [isNone |-> TRUE]
DataFrame(rows) == [isNone |-> FALSE, rows |-> rows]
Raised == [isNone |-> FALSE, raised |-> TRUE]

IsFrame(v) == v # None /\ v # Raised

Abs(x) == IF x < 0 THEN -x ELSE x
Max(a, b) == IF a > b THEN a ELSE b
Reverse(s) == [i \in 1..Len(s) |-> s[Len(s) + 1 - i]]

(***************************************************************************)
(* Candle tables the providers can deliver, newest row first.  trend is    *)
(* the move per hour in pips (positive: prices rose towards the newest     *)
(* row), range is high - low of every candle.                              *)
(***************************************************************************)
Candles(n, trend, range) ==
    [i \in 1..n |-> [t     |-> n - i,
                     close |-> BasePrice + trend * (n - i),
                     high  |-> BasePrice + trend * (n - i) + range,
                     low   |-> BasePrice + trend * (n - i)]]

\* a reversal: prices moved against trend until the middle of the window and
\* with it since
Turn(n, trend, range) ==
    [i \in 1..n |-> [t     |-> n - i,
                     close |-> BasePrice + trend * Abs((n - i) - n \div 2),
                     high  |-> BasePrice + trend * Abs((n - i) - n \div 2) + range,
                     low   |-> BasePrice + trend * Abs((n - i) - n \div 2)]]

Trends == {-1, 0, 1}
Ranges == {-10, 0, 5, 10}
Lengths == {1, MinCandles - 1} \cup (MinCandles..(MinCandles + MaxExtra))
Tables == {Candles(n, t, r) : n \in Lengths, t \in Trends, r \in Ranges}
          \cup {Turn(n, t, 10) : n \in Lengths, t \in {-1, 1}}

(***************************************************************************)
(* pandas Series.ewm(span).mean() with the default adjust=True:            *)
(*   y_t = (x_t + w x_{t-1} + ... + w^t x_0) / (1 + w + ... + w^t),        *)
(*   w = 1 - alpha = (span - 1) / (span + 1).                              *)
(* Numerator and denominator follow the recursion N_t = x_t + w N_{t-1},   *)
(* D_t = 1 + w D_{t-1}, accumulated from row 0 of the column downwards.    *)
(***************************************************************************)
\* The sums are kept in fixed point: EwmScale units per pip in the numerator,
\* EwmScale * 10^4 units in the denominator; the mean is their quotient to
\* the nearest pip.
EwmDenScale == EwmScale * 10000

RECURSIVE EwmNum(_, _, _)
EwmNum(x, span, t) ==
    IF t = 1 THEN x[1] * EwmScale
    ELSE x[t] * EwmScale + ((span - 1) * EwmNum(x, span, t - 1)) \div (span + 1)

RECURSIVE EwmDen(_, _)
EwmDen(span, t) ==
    IF t = 1 THEN EwmDenScale
    ELSE EwmDenScale + ((span - 1) * EwmDen(span, t - 1)) \div (span + 1)

\* floor(r * 10^k / d) for 0 <= r < d, digit by digit
RECURSIVE Digits(_, _, _)
Digits(r, d, k) ==
    IF k = 0 THEN 0
    ELSE ((r * 10) \div d) * (10 ^ (k - 1)) + Digits((r * 10) % d, d, k - 1)

\* n * 10^4 / d to the nearest integer
Quotient(n, d) == ((n \div d) * 100000 + Digits(n % d, d, 5) + 5) \div 10

\* variant: the sums run from the last row of the column up to row 0
ewm_mean_from_last(x, span, t) ==
    Quotient(EwmNum(Reverse(x), span, Len(x) + 1 - t), EwmDen(span, Len(x) + 1 - t))

ewm_mean(x, span, t) == Quotient(EwmNum(x, span, t), EwmDen(span, t))

CloseColumn(rows) == [i \in 1..Len(rows) |-> rows[i].close]

(***************************************************************************)
(* analyze_pair                                                            *)
(***************************************************************************)
\* row = df.iloc[0]: the row the direction is read from
iloc0 == 1

Direction(ema20, ema50) == IF ema20 > ema50 THEN "BUY" ELSE "SELL"

\* variant: the SELL branch keeps the stop of the BUY branch
Levels_same_stop(direction, entry, rng, rr) ==
    IF direction = "BUY"
    THEN [sl |-> entry - rng, tp |-> entry + rng * rr]
    ELSE [sl |-> entry - rng, tp |-> entry - rng * rr]

Levels(direction, entry, rng, rr) ==
    IF direction = "BUY"
    THEN [sl |-> entry - rng, tp |-> entry + rng * rr]
    ELSE [sl |-> entry + rng, tp |-> entry - rng * rr]

\* variant: the window test is off by one
TooShort_off_by_one(v) == v = None \/ Len(v.rows) = 0 \/ Len(v.rows) < MinCandles - 1

TooShort(v) == v = None \/ Len(v.rows) = 0 \/ Len(v.rows) < MinCandles

analyze_pair(v) ==
    IF TooShort(v) THEN None
    ELSE LET close == CloseColumn(v.rows)
             ema20 == ewm_mean(close, Span20, iloc0)
             ema50 == ewm_mean(close, Span50, iloc0)
             direction == Direction(ema20, ema50)
             rng == Max(MinRange, Abs(v.rows[1].high - v.rows[1].low))
             entry == v.rows[iloc0].close
             lv == Levels(direction, entry, rng, RR)
         IN [isNone |-> FALSE, direction |-> direction, entry |-> entry,
             sl |-> lv.sl, tp |-> lv.tp, rng |-> rng, rr_text |-> RR,
             ema20 |-> ema20, ema50 |-> ema50]

(***************************************************************************)
(* Data fetchers.  A provider's answer is one of                           *)
(*   [kind |-> "error"]      the request or the decoding raises,           *)
(*   [kind |-> "malformed"]  TwelveData JSON without data.values,          *)
(*   [kind |-> "empty"]      Yahoo returns None or an empty table,         *)
(*   [kind |-> "norows"]     TwelveData JSON whose data.values is empty,   *)
(*   [kind |-> "rows", rows |-> ...] a table (TwelveData: newest first,    *)
(*                           Yahoo: oldest first).                         *)
(* Behind feed "live" are providers that honour the request: at most       *)
(* TwelveDataOutputSize rows, at most YahooWindow rows.  Behind feed       *)
(* "stub" are replaced providers that deliver tables of any length.        *)
(***************************************************************************)
NoAnswer == [kind |-> "none"]
ProviderLengths(window) == {1, window}
StubLengths == {1, MinCandles - 1, MinCandles + MaxExtra}
StubTables ==
    {Candles(n, 1, 0) : n \in StubLengths} \cup {Candles(MinCandles + MaxExtra, -1, 0)}
TwelveDataTables(f) ==
    IF f = "live" THEN {Candles(n, 1, 0) : n \in ProviderLengths(TwelveDataOutputSize)}
    ELSE StubTables
YahooTables(f) ==
    IF f = "live" THEN {Candles(n, t, 0) : n \in ProviderLengths(YahooWindow), t \in {-1, 1}}
    ELSE StubTables
TwelveDataAnswers(f) ==
    {[kind |-> "error"], [kind |-> "malformed"], [kind |-> "norows", rows |-> <<>>]}
    \cup {[kind |-> "rows", rows |-> c] : c \in TwelveDataTables(f)}
YahooAnswers(f) ==
    {[kind |-> "error"], [kind |-> "empty"]}
    \cup {[kind |-> "rows", rows |-> Reverse(c)] : c \in YahooTables(f)}

\* variant: no handler around the fetch
Catch_nothing(v) == v

\* try: ... except Exception: return None
Catch(v) == IF v = Raised THEN None ELSE v

\* data.sort_index(ascending=False): rows by decreasing timestamp, rows of
\* equal timestamp in their original order
RankDesc(s, i) ==
    1 + Cardinality({j \in 1..Len(s) : \/ s[j].t > s[i].t
                                       \/ (s[j].t = s[i].t /\ j < i)})

sort_index_desc(s) ==
    [k \in 1..Len(s) |-> s[CHOOSE i \in 1..Len(s) : RankDesc(s, i) = k]]

\* variant: a table without rows is returned as it is
fetch_from_twelvedata_no_rows(a) ==
    Catch(IF ~TWELVEDATA_KEY THEN None
          ELSE IF a.kind = "error" THEN Raised
          ELSE IF a.kind = "malformed" THEN None
          ELSE DataFrame(a.rows))

fetch_from_twelvedata(a) ==
    Catch(IF ~TWELVEDATA_KEY THEN None
          ELSE IF a.kind = "error" THEN Raised
          ELSE IF a.kind = "malformed" THEN None
          ELSE IF a.rows = <<>> THEN Raised      \* df["open"] on a frame without columns
          ELSE DataFrame(a.rows))

fetch_from_yahoo(a) ==
    Catch(IF a.kind = "error" THEN Raised
          ELSE IF a.kind = "empty" THEN None
          ELSE DataFrame(sort_index_desc(a.rows)))

\* fetch_from_yahoo of every answer of the model, tabulated once
YahooFetched ==
    [b \in YahooAnswers("live") \cup YahooAnswers("stub") |-> fetch_from_yahoo(b)]

get_candle(a, b) ==
    IF fetch_from_twelvedata(a) = None THEN YahooFetched[b]
    ELSE fetch_from_twelvedata(a)

(***************************************************************************)
(* Money management                                                        *)
(***************************************************************************)
\* round(x, 2) of the float nearest to n / d cents: the nearest cent; when
\* n / d ends in half a cent the float lies on the tie or a rounding error
\* above or below it, and the result is one of the two neighbouring cents
round2(n, d) ==
    LET q == n \div d
        r == n % d
    IN  IF 2 * r < d THEN {q}
        ELSE IF 2 * r > d THEN {q + 1}
        ELSE {q, q + 1}

\* risk = round(capital * (RISK_PERCENT/100.0), 2): the possible values
RiskOf(c) == round2(c * RISK_PERCENT, 100)
\* reward = round(risk * RR, 2)
RewardOf(rk) == rk * RR

\* variant: a loss costs the reward
send_result_loss_reward(c, win, rk, rw) == IF win THEN c + rw ELSE c - rw

\* the assignment to the global in send_result
send_result(c, win, rk, rw) == IF win THEN c + rw ELSE c - rk

\* variant: only Saturday and Sunday are off
is_weekend_off_sat_sun(w) == w \in {5, 6}

is_weekend_off(w) == w \in OffDays

\* variant: no test of the day of the month
monthly_auto_reset_any_day(c, day) == START_CAPITAL

\* the assignment to the global in monthly_auto_reset
monthly_auto_reset(c, day) == IF day # 1 THEN c ELSE START_CAPITAL

\* variant: the handler writes the global
status_writes(c) == START_CAPITAL

\* what the /status handler leaves in the global
status(c) == c

(***************************************************************************)
(* Initial state: the module-level statements of lines 14-113              *)
(***************************************************************************)
NoTxt == [kind |-> "none"]

InitWith(f, p, d) ==
    /\ DEMO_RESULT \in BOOLEAN
    /\ TWELVEDATA_KEY \in BOOLEAN
    /\ RR \in 1..MaxRR
    /\ feed = f
    /\ capital = START_CAPITAL
    /\ pc = p
    /\ idx = 1
    /\ pair = PAIR_LIST[1]
    /\ wd = 0
    /\ dom = 1
    /\ risk = 0
    /\ reward = 0
    /\ td = "none"
    /\ yh = "none"
    /\ df \in d
    /\ res = None
    /\ txt = NoTxt
    /\ sent = <<>>
    /\ lines = <<>>
    /\ lastOp = "init"
    /\ reported = START_CAPITAL
    /\ replied = FALSE
    /\ nOutcomes = 0

Init == InitWith("live", "idle", {None})

Config == <<DEMO_RESULT, TWELVEDATA_KEY, RR, feed>>

\* what every job clears when it starts
JobStart ==
    /\ lines' = <<>>
    /\ df' = None
    /\ res' = None
    /\ txt' = NoTxt
    /\ td' = "none"
    /\ yh' = "none"
    /\ idx' = 1
    /\ pair' = PAIR_LIST[1]
    /\ replied' = FALSE

(***************************************************************************)
(* python bot.py: the compiler rejects the file at line 285, no statement  *)
(* runs                                                                    *)
(***************************************************************************)
Main ==
    /\ pc = "idle"
    /\ lastOp = "init"
    /\ pc' = "SyntaxError"
    /\ lastOp' = "main"
    /\ replied' = FALSE
    /\ UNCHANGED <<Config, capital, idx, pair, wd, dom, risk, reward, td, yh, df, res,
                   txt, sent, lines, reported, nOutcomes>>

(***************************************************************************)
(* signal_scan: the gate and lines 145-146, then for every pair of         *)
(* PAIR_LIST up to three steps, one up to each write of the global and     *)
(* each blocking send():                                                   *)
(*   pc = "scan"          lines 149-172: fetch, analyse, send the signal   *)
(*   pc = "scan_outcome"  lines 174-196: draw the outcome, write capital   *)
(*   pc = "scan_result"   line 197: send the result                        *)
(***************************************************************************)
ScanBegin(w) ==
    /\ pc = "idle"
    /\ nOutcomes < MaxOutcomes
    /\ wd' = w
    /\ JobStart
    /\ sent' = <<>>
    /\ IF is_weekend_off(w)
       THEN /\ pc' = "idle"
            /\ lastOp' = "scan_off"
            /\ risk' = 0
            /\ reward' = 0
       ELSE /\ pc' = "scan"
            /\ lastOp' = "scan_begin"
            /\ \E rk \in RiskOf(capital) :
                 /\ risk' = rk
                 /\ reward' = RewardOf(rk)
    /\ UNCHANGED <<Config, reported, capital, dom, nOutcomes>>

SignalMsg(p, r) == [kind |-> "signal", pair |-> p, direction |-> r.direction]
ResultMsg(p, win, c) == [kind |-> "result", pair |-> p, win |-> win, balance |-> c]

\* the loop goes on to the next pair, or signal_scan returns
NextPair ==
    /\ idx' = idx + 1
    /\ pc' = IF idx = Len(PAIR_LIST) THEN "idle" ELSE "scan"

ScanPair(a, b, win) ==
    /\ pc \in {"scan", "scan_outcome", "scan_result"}
    /\ replied' = FALSE
    /\ UNCHANGED <<Config, reported, wd, dom, risk, reward, lines>>
    /\ IF pc = "scan"
       THEN \E d \in {get_candle(a, b)} :
            \E r \in {IF d = None \/ d = Raised THEN None ELSE analyze_pair(d)} :
              /\ pair' = PAIR_LIST[idx]
              /\ td' = a.kind
              /\ yh' = b.kind
              /\ df' = d
              /\ res' = r
              /\ lastOp' = "scan_pair"
              /\ UNCHANGED <<capital, nOutcomes, txt>>
              /\ IF d = Raised
                 THEN /\ pc' = "dead"           \* nothing catches it up to main()
                      /\ UNCHANGED <<idx, sent>>
                 ELSE IF r = None
                 THEN /\ NextPair
                      /\ UNCHANGED sent
                 ELSE /\ sent' = Append(sent, SignalMsg(pair', r))
                      /\ IF DEMO_RESULT
                         THEN pc' = "scan_outcome" /\ UNCHANGED idx
                         ELSE NextPair
       ELSE IF pc = "scan_outcome"
       THEN /\ capital' = send_result(capital, win, risk, reward)
            /\ txt' = ResultMsg(pair, win, capital')
            /\ nOutcomes' = nOutcomes + 1
            /\ pc' = "scan_result"
            /\ lastOp' = "scan_outcome"
            /\ UNCHANGED <<idx, pair, td, yh, df, res, sent>>
       ELSE /\ sent' = Append(sent, txt)
            /\ txt' = NoTxt
            /\ NextPair
            /\ lastOp' = "scan_result"
            /\ UNCHANGED <<capital, nOutcomes, pair, td, yh, df, res>>

(***************************************************************************)
(* heartbeat, one step per pair                                            *)
(***************************************************************************)
HeartbeatBegin ==
    /\ pc = "idle"
    /\ pc' = "heartbeat"
    /\ JobStart
    /\ sent' = <<>>
    /\ risk' = 0
    /\ reward' = 0
    /\ lastOp' = "heartbeat_begin"
    /\ UNCHANGED <<Config, reported, capital, wd, dom, nOutcomes>>

HeartbeatLine(p, d) ==
    IF d # None /\ Len(d.rows) # 0
    THEN [pair |-> p, ok |-> TRUE, last |-> d.rows[1].close]
    ELSE [pair |-> p, ok |-> FALSE, last |-> 0]

HeartbeatPair(a, b) ==
    /\ pc = "heartbeat"
    /\ \E d \in {get_candle(a, b)} :
           /\ pair' = PAIR_LIST[idx]
           /\ td' = a.kind
           /\ yh' = b.kind
           /\ df' = d
           /\ lastOp' = "heartbeat_pair"
           /\ IF d = Raised
              THEN /\ pc' = "dead"
                   /\ UNCHANGED <<idx, sent, lines>>
              ELSE /\ idx' = idx + 1
                   /\ lines' = Append(lines, HeartbeatLine(pair', d))
                   /\ IF idx = Len(PAIR_LIST)
                      THEN /\ pc' = "idle"
                           /\ sent' = <<[kind |-> "heartbeat", lines |-> lines']>>
                      ELSE /\ pc' = "heartbeat"
                           /\ UNCHANGED sent
    /\ replied' = FALSE
    /\ UNCHANGED <<Config, reported, capital, wd, dom, risk, reward, res, txt, nOutcomes>>

(***************************************************************************)
(* morning_activation, every day at 10:00                                  *)
(***************************************************************************)
MorningActivation(w) ==
    /\ pc = "idle"
    /\ wd' = w
    /\ JobStart
    /\ sent' = <<[kind |-> "morning", rest |-> is_weekend_off(w)]>>
    /\ risk' = 0
    /\ reward' = 0
    /\ lastOp' = "morning"
    /\ UNCHANGED <<Config, reported, capital, pc, dom, nOutcomes>>

(***************************************************************************)
(* monthly_auto_reset, every day at 10:10: lines 234-237 up to the write   *)
(* of the global, then the blocking send() of lines 238-246                *)
(***************************************************************************)
Reset(day) ==
    /\ pc = "idle"
    /\ dom' = day
    /\ capital' = monthly_auto_reset(capital, day)
    /\ JobStart
    /\ sent' = <<>>
    /\ pc' = IF day # 1 THEN "idle" ELSE "reset_send"
    /\ nOutcomes' = IF day # 1 THEN nOutcomes ELSE 0
    /\ risk' = 0
    /\ reward' = 0
    /\ lastOp' = "reset"
    /\ UNCHANGED <<Config, reported, wd>>

ResetSend ==
    /\ pc = "reset_send"
    /\ sent' = Append(sent, [kind |-> "reset"])
    /\ pc' = "idle"
    /\ lastOp' = "reset_send"
    /\ replied' = FALSE
    /\ UNCHANGED <<Config, reported, capital, idx, pair, wd, dom, risk, reward, td, yh,
                   df, res, txt, lines, nOutcomes>>

(***************************************************************************)
(* /status, handled on the listener thread at any moment                   *)
(***************************************************************************)
Status ==
    /\ pc # "SyntaxError"
    /\ reported' = capital
    /\ capital' = status(capital)
    /\ replied' = TRUE
    /\ UNCHANGED <<Config, pc, idx, pair, wd, dom, risk, reward, td, yh, df, res,
                   txt, sent, lines, lastOp, nOutcomes>>

Days == {1, 2}

\* the answers a step of pc can receive
AnswersTD == IF pc \in {"scan", "heartbeat"} /\ TWELVEDATA_KEY
             THEN TwelveDataAnswers(feed) ELSE {NoAnswer}
AnswersYahoo(a) == IF pc \in {"scan", "heartbeat"} /\ fetch_from_twelvedata(a) = None
                   THEN YahooAnswers(feed) ELSE {NoAnswer}

Next ==
    \/ Main
    \/ \E w \in 0..6 : ScanBegin(w)
    \/ \E a \in AnswersTD : \E b \in AnswersYahoo(a) :
         \E win \in (IF pc = "scan_outcome" THEN BOOLEAN ELSE {FALSE}) : ScanPair(a, b, win)
    \/ HeartbeatBegin
    \/ \E a \in AnswersTD : \E b \in AnswersYahoo(a) : HeartbeatPair(a, b)
    \/ \E w \in 0..6 : MorningActivation(w)
    \/ \E day \in Days : Reset(day)
    \/ ResetSend
    \/ Status

\* the bot behind providers that honour the requested windows
Spec == Init /\ [][Next]_vars

\* the bot behind replaced providers
InitStub == InitWith("stub", "idle", {None})
SpecStub == InitStub /\ [][Next]_vars

(***************************************************************************)
(* analyze_pair on its own: every table of the model, no table, and a      *)
(* table without rows                                                      *)
(***************************************************************************)
AnalyzeInputs == {None, DataFrame(<<>>)} \cup {DataFrame(c) : c \in Tables}

InitAnalyze == InitWith("stub", "analyze", AnalyzeInputs)

AnalyzeCall ==
    /\ pc = "analyze"
    /\ pc' = "analyzed"
    /\ res' = analyze_pair(df)
    /\ lastOp' = "analyze_pair"
    /\ replied' = FALSE
    /\ UNCHANGED <<Config, reported, capital, idx, pair, wd, dom, risk, reward, td, yh,
                   df, txt, sent, lines, nOutcomes>>

NextAnalyze == AnalyzeCall

SpecAnalyze == InitAnalyze /\ [][NextAnalyze]_vars

(***************************************************************************)
(* The exponential moving average of the closes at the latest candle: the  *)
(* closes weighted from the oldest candle up to the newest one.            *)
(***************************************************************************)
ChronoEMA(rows, span) == ewm_mean(Reverse(CloseColumn(rows)), span, Len(rows))

Analyzed == pc = "analyzed" /\ res # None

\* C1: for a series of at least 60 candles analyze_pair returns BUY exactly
\* when the span-20 EMA of the closes at the latest candle is strictly above
\* the span-50 EMA at the latest candle, and SELL otherwise.
C1_DirectionRule ==
    Analyzed =>
        /\ Len(df.rows) >= MinCandles
        /\ res.direction = "BUY" <=> ChronoEMA(df.rows, Span20) > ChronoEMA(df.rows, Span50)
        /\ res.direction \in {"BUY", "SELL"}

\* C2: every returned signal has rng = max(0.0008, |high - low|) >= 0.0008 of
\* the latest candle, entry = latest close, and stop and target on opposite
\* sides of entry (BUY: sl = entry - rng < entry < tp = entry + rng * RR;
\* SELL: tp = entry - rng * RR < entry < sl = entry + rng); with RR = 2, BUY,
\* entry 1.1000 and rng 0.0010 the stop is 1.0990 and the target 1.1020.
C2_Levels ==
    /\ Analyzed =>
          /\ res.rng = Max(MinRange, Abs(df.rows[1].high - df.rows[1].low))
          /\ res.rng >= MinRange
          /\ res.entry = df.rows[1].close
          /\ res.direction = "BUY" =>
                /\ res.sl = res.entry - res.rng
                /\ res.tp = res.entry + res.rng * RR
                /\ res.sl < res.entry /\ res.entry < res.tp
          /\ res.direction = "SELL" =>
                /\ res.sl = res.entry + res.rng
                /\ res.tp = res.entry - res.rng * RR
                /\ res.tp < res.entry /\ res.entry < res.sl
    /\ Levels("BUY", 11000, 10, 2) = [sl |-> 10990, tp |-> 11020]
    /\ Levels("SELL", 11000, 10, 2) = [sl |-> 11010, tp |-> 10980]

\* a signal for a flat latest candle (high = low): the floor applies
C2_Witness ==
    /\ Analyzed
    /\ df.rows[1].high = df.rows[1].low
    /\ res.rng = MinRange
    /\ res.sl = res.entry + MinRange

(***************************************************************************)
(* Properties of the running bot                                           *)
(***************************************************************************)
\* the body of the loop of signal_scan is through with the pair it took last
PairDone ==
    \/ lastOp = "scan_pair" /\ pc \in {"scan", "idle"}
    \/ lastOp = "scan_result"
\* the signal of the current pair is sent, its result is not
PairOpen(p) == pc \in {"scan_outcome", "scan_result"} /\ pair = p

MsgsOf(kind, p) ==
    {i \in 1..Len(sent) : sent[i].kind = kind /\ sent[i].pair = p}
MsgsFor(p) == MsgsOf("signal", p) \cup MsgsOf("result", p)

\* steps of the timer thread, as seen on a pair of states
TimerStep == ~replied'
FetchStep == pc = "scan" /\ TimerStep
OutcomeStep == pc = "scan_outcome" /\ TimerStep
ResultStep == pc = "scan_result" /\ TimerStep

\* C3: with DEMO_RESULT on, every signal of a scan is followed by exactly one
\* outcome application, which adds reward to capital on a win and subtracts
\* risk on a loss, without floor or ceiling (1000 with risk 20 and reward 40
\* gives 1040 or 980); with DEMO_RESULT off a scan leaves capital unchanged.
C3_Outcome ==
    /\ [](/\ send_result(100000, TRUE, 2000, 4000) = 104000
          /\ send_result(100000, FALSE, 2000, 4000) = 98000
          /\ \A p \in {PAIR_LIST[i] : i \in 1..Len(PAIR_LIST)} :
               Cardinality(MsgsOf("result", p)) =
                  IF ~DEMO_RESULT THEN 0
                  ELSE IF PairOpen(p) THEN Cardinality(MsgsOf("signal", p)) - 1
                  ELSE Cardinality(MsgsOf("signal", p))
          /\ ~DEMO_RESULT => capital = START_CAPITAL)
    /\ [][/\ FetchStep =>
               /\ capital' = capital
               /\ pc' = "scan_outcome" <=> (res' # None /\ DEMO_RESULT /\ df' # Raised)
               /\ pc' = "scan_outcome" =>
                    sent' = Append(sent, [kind |-> "signal", pair |-> pair',
                                          direction |-> res'.direction])
          /\ OutcomeStep =>
               /\ pc' = "scan_result"
               /\ txt'.kind = "result" /\ txt'.pair = pair /\ txt'.balance = capital'
               /\ capital' = IF txt'.win THEN capital + reward ELSE capital - risk
               /\ sent' = sent
          /\ ResultStep =>
               /\ capital' = capital
               /\ sent' = Append(sent, txt)
               /\ pc' \in {"scan", "idle"}]_vars

\* a won outcome applied and reported: 1000 with risk 20, reward 40 became
\* 1040
C3_Witness ==
    /\ lastOp = "scan_result" /\ DEMO_RESULT /\ res # None
    /\ risk = 2000 /\ reward = 4000 /\ capital = 104000
    /\ sent[Len(sent)] = [kind |-> "result", pair |-> pair, win |-> TRUE,
                          balance |-> 104000]

\* C4 as stated: on Friday, Saturday and Sunday a scan sends nothing and
\* leaves capital unchanged; on the other weekdays every pair that yields a
\* signal produces exactly one outbound message in that scan.
C4_OneMessage ==
    /\ lastOp = "scan_off" => wd \in OffDays /\ sent = <<>>
    /\ PairDone =>
         /\ wd \notin OffDays
         /\ Cardinality(MsgsFor(pair)) = IF res # None THEN 1 ELSE 0

\* C4 amended: on the off days a scan sends nothing and leaves capital
\* unchanged; on the other weekdays every pair that yields a signal produces
\* exactly one signal message, followed by exactly one result message when
\* DEMO_RESULT is on, and a pair without signal produces no message.
C4_Gate ==
    /\ [](/\ lastOp = "scan_off" => wd \in OffDays /\ sent = <<>>
          /\ lastOp \in {"scan_begin", "scan_pair", "scan_outcome", "scan_result"} =>
               wd \notin OffDays
          /\ PairDone =>
               /\ Cardinality(MsgsOf("signal", pair)) = IF res # None THEN 1 ELSE 0
               /\ Cardinality(MsgsOf("result", pair)) =
                     IF res # None /\ DEMO_RESULT THEN 1 ELSE 0
               /\ res # None /\ DEMO_RESULT =>
                     /\ sent[Len(sent)].kind = "result"
                     /\ sent[Len(sent) - 1] = [kind |-> "signal", pair |-> pair,
                                               direction |-> res.direction])
    /\ [][lastOp' = "scan_off" => capital' = capital]_vars

\* a Thursday scan that signalled both pairs and reported both results
C4_Witness ==
    /\ PairDone /\ wd = 3 /\ pc = "idle" /\ res # None /\ DEMO_RESULT
    /\ Len(sent) = 4 /\ sent[1].pair = PAIR_LIST[1] /\ sent[3].pair = PAIR_LIST[2]
    /\ sent[2].kind = "result" /\ sent[4].kind = "result"

\* C5 as stated: after every invocation of monthly_auto_reset capital equals
\* START_CAPITAL.
C5_AlwaysReset == lastOp \in {"reset", "reset_send"} => capital = START_CAPITAL

\* C5 amended: invoked on the first day of the month monthly_auto_reset sets
\* capital to START_CAPITAL whatever outcomes were applied before and then
\* sends one message; invoked on any other day it leaves capital unchanged
\* and sends nothing.
C5_Reset ==
    /\ [](/\ lastOp \in {"reset", "reset_send"} /\ dom = 1 => capital = START_CAPITAL
          /\ lastOp = "reset" /\ dom = 1 => pc = "reset_send" /\ sent = <<>>
          /\ lastOp = "reset" /\ dom # 1 => pc = "idle" /\ sent = <<>>
          /\ lastOp = "reset_send" => dom = 1 /\ pc = "idle" /\ sent = <<[kind |-> "reset"]>>)
    /\ [][/\ TimerStep /\ lastOp' = "reset" /\ dom' # 1 =>
               capital' = capital /\ sent' = <<>> /\ pc' = "idle"
          /\ TimerStep /\ lastOp' = "reset" /\ dom' = 1 => capital' = START_CAPITAL
          /\ TimerStep /\ pc = "reset_send" =>
               capital' = capital /\ lastOp' = "reset_send"]_vars

\* a reset on the first that undid applied outcomes (the balance reported
\* before it differs) and has sent its message
C5_Witness ==
    /\ lastOp = "reset_send" /\ dom = 1 /\ capital = START_CAPITAL
    /\ reported # START_CAPITAL /\ sent = <<[kind |-> "reset"]>>

ProviderFailed ==
    /\ td \in {"none", "error", "malformed", "norows"}
    /\ yh \in {"error", "empty"}

\* C6: get_candle never raises; when TwelveData is unconfigured, errors or is
\* malformed and Yahoo errors or has no data it returns None, signal_scan
\* sends nothing for that pair, goes on to the remaining pairs, and the
\* timer loop stays alive.
C6_NoEscape ==
    /\ df # Raised
    /\ pc # "dead"
    /\ lastOp \in {"scan_pair", "heartbeat_pair"} /\ ProviderFailed => df = None
    /\ lastOp = "scan_pair" /\ df = None =>
         /\ res = None
         /\ MsgsFor(pair) = {}
         /\ pc = IF idx <= Len(PAIR_LIST) THEN "scan" ELSE "idle"

\* both providers raised for the first pair; the scan is at the second pair
C6_Witness ==
    /\ lastOp = "scan_pair" /\ td = "error" /\ yh = "error"
    /\ df = None /\ sent = <<>> /\ pc = "scan" /\ idx = 2

\* C7 as stated: what get_candle hands to signal_scan and heartbeat is None
\* or a series of at least 60 candles.
C7_MinLength ==
    lastOp \in {"scan_pair", "heartbeat_pair"} =>
        df = None \/ Len(df.rows) >= MinCandles

\* C7 amended: get_candle returns None when both providers fail or deliver
\* no rows; otherwise it returns the table of the first provider that
\* delivered rows, whatever its length, so callers get None or a series of
\* at least one candle (the 60-candle minimum is applied by analyze_pair).
C7_NonEmpty ==
    lastOp \in {"scan_pair", "heartbeat_pair"} =>
        /\ df = None \/ (IsFrame(df) /\ Len(df.rows) >= 1)
        /\ ProviderFailed => df = None
        /\ td = "rows" \/ yh = "rows" => df # None

\* heartbeat was handed the two days of hourly candles Yahoo was asked for,
\* fewer than the minimum window
C7_Witness ==
    /\ lastOp = "heartbeat_pair" /\ df # None
    /\ yh = "rows" /\ Len(df.rows) = YahooWindow /\ YahooWindow < MinCandles
    /\ lines[Len(lines)].ok

ShortInputs ==
    {None, DataFrame(<<>>)} \cup {DataFrame(c) : c \in {x \in Tables : Len(x) < MinCandles}}

\* C8: for every series of fewer than 60 candles (also none and an empty
\* one) analyze_pair returns None whatever the candles are, and signal_scan
\* then sends nothing for that pair and leaves capital unchanged.
C8_ShortSeries ==
    /\ [](/\ \A v \in ShortInputs : analyze_pair(v) = None
          /\ lastOp = "scan_pair" /\ df # None /\ Len(df.rows) < MinCandles =>
               res = None /\ MsgsFor(pair) = {} /\ pc \in {"scan", "idle"})
    /\ [][FetchStep /\ (df' = None \/ Len(df'.rows) < MinCandles) =>
            capital' = capital /\ sent' = sent /\ pc' \in {"scan", "idle"}]_vars

\* a scan step on the 30 candles TwelveData was asked for
C8_Witness ==
    /\ lastOp = "scan_pair" /\ df # None /\ td = "rows"
    /\ Len(df.rows) = TwelveDataOutputSize
    /\ res = None /\ sent = <<>>

\* C9: capital is written only by the timer thread, one complete outcome
\* application or reset at a time; a /status query reports the value capital
\* has at that moment, which is the value before or after such a complete
\* write, and does not change capital.
C9_SharedCapital ==
    [][/\ replied' =>
            /\ reported' = capital
            /\ capital' = capital
            /\ pc' = pc /\ idx' = idx /\ sent' = sent
       /\ capital' # capital =>
            /\ TimerStep
            /\ \/ OutcomeStep /\ capital' \in {capital + reward, capital - risk}
               \/ /\ pc = "idle" /\ lastOp' = "reset" /\ pc' = "reset_send"
                  /\ capital' = START_CAPITAL /\ sent' = <<>>]_vars

\* a /status reply given after the outcome of the first pair was applied and
\* before its result message was sent
C9_Witness ==
    /\ replied /\ pc = "scan_result" /\ idx = 1
    /\ reported = capital /\ capital # START_CAPITAL
    /\ Len(sent) = 1 /\ sent[1].kind = "signal"

\* C10: both averages read at row 0 equal that row's close, so for every
\* series of at least 60 candles analyze_pair returns SELL and signal_scan
\* never sends a BUY signal.
C10_AlwaysSell ==
    /\ res # None =>
         /\ res.ema20 = res.entry
         /\ res.ema50 = res.entry
         /\ res.direction = "SELL"
    /\ \A i \in 1..Len(sent) : sent[i].kind = "signal" => sent[i].direction = "SELL"

\* a SELL signal sent for a series whose closes rose to the latest candle
C10_Witness ==
    /\ lastOp = "scan_pair" /\ res # None /\ res.direction = "SELL"
    /\ df.rows[1].close > df.rows[Len(df.rows)].close
    /\ ChronoEMA(df.rows, Span20) > ChronoEMA(df.rows, Span50)
    /\ MsgsOf("signal", pair) # {}

====
